---- MODULE Spec2Model ----
(***************************************************************************)
(* Model of the hierarchical logger tree of src/src/logger.rs and its      *)
(* public wrappers in src/src/lib.rs.                                      *)
(*                                                                         *)
(* Every node of the tree is a heap object behind its own RwLock; the heap *)
(* is the sequence `nodes` and a node's address is its index.  Threads run *)
(* the public operations; every step that can block on a lock is an action *)
(* of its own, so a thread that waits is a thread whose next action is     *)
(* disabled.                                                               *)
(***************************************************************************)
EXTENDS Integers, Sequences, FiniteSets, TLC

VARIABLES
    nodes,      \* heap of logger::Logger objects: level, handlers, name, children
    poisoned,   \* addresses whose RwLock is poisoned
    held,       \* per thread: stack of lock guards it holds, innermost last
    pc,         \* per thread: position in the running operation
    op,         \* per thread: the running (or last) operation and its arguments
    target,     \* per thread: address of the lock it is about to take
    frames,     \* per thread: children still to visit, one entry per recursion level
    idx,        \* per thread: index of the next handler in Logger::log's loop
    calls,      \* per thread: handler invocations made by the current log call
    outer,      \* per thread: suspended log calls whose handler called back in
    ret,        \* per thread: handle returned by the last Logger::new (0: none)
    issued,     \* every <<name, address>> a Logger::new call has returned
    snap,       \* per thread: tree as it was when set_level/add_handler locked its node
    ncalls      \* number of public calls started so far

vars == <<nodes, poisoned, held, pc, op, target, frames, idx, calls, outer, ret,
          issued, snap, ncalls>>

(***************************************************************************)
(* Bounds and inputs.                                                      *)
(***************************************************************************)
MaxCalls == 4

Threads == {"t1", "t2"}

\* Level.rs: LogLevel = i32
MIN == -2147483647 - 1
MAX == 2147483647
ALL == MIN
NONE == MAX
INFO == 10

LevelInputs == {ALL, INFO}
Severities == {INFO - 1, INFO, MAX - 1, MAX}
Msgs == {"m"}

Handlers == {"H1", "H2"}

\* Strings are sequences of characters.
D == <<":", ":">>
NameA == D \o <<"a">>
NameAB == D \o <<"a">> \o D \o <<"b">>
NameATrail == D \o <<"a">> \o D
Names == {<<>>, <<"a">>, NameA, NameAB, NameATrail}

Root == 1

(***************************************************************************)
(* String helpers (str::starts_with, str::split(..).next(), slicing).      *)
(***************************************************************************)
StartsWith(s, p) == Len(s) >= Len(p) /\ SubSeq(s, 1, Len(p)) = p

RECURSIVE SplitFirst(_)
SplitFirst(s) ==
    IF s = <<>> \/ StartsWith(s, D) THEN <<>>
    ELSE <<Head(s)>> \o SplitFirst(Tail(s))

SliceFrom(s, n) == SubSeq(s, n + 1, Len(s))

(***************************************************************************)
(* The heap and the locks.                                                 *)
(***************************************************************************)
NoChildren == [k \in {} |-> 0]

\* HashMap::insert
Insert(children, k, v) ==
    [s \in DOMAIN children \cup {k} |-> IF s = k THEN v ELSE children[s]]

\* get_root: the Logger the ROOT OnceLock is initialised with (the build
\* without the default_log_console feature: no handler to start with)
RootLogger ==
    [level |-> MAX, handlers |-> <<>>, name |-> <<>>, children |-> NoChildren]

Addrs == 1..Len(nodes)

ChildIds(ns, n) == {ns[n].children[k] : k \in DOMAIN ns[n].children}

RECURSIVE Subtree(_, _)
Subtree(ns, x) == {x} \cup UNION {Subtree(ns, c) : c \in ChildIds(ns, x)}

\* The orders in which HashMap::values_mut may yield the children.
Orders(S) ==
    {s \in [1..Cardinality(S) -> S] : \A i, j \in DOMAIN s : i # j => s[i] # s[j]}

Guard(n, m) == [node |-> n, mode |-> m]

Holds(t, n, m) == \E i \in DOMAIN held[t] : held[t][i] = Guard(n, m)
WriteLocked(n) == \E t \in Threads : Holds(t, n, "w")
ReadLocked(n) == \E t \in Threads : Holds(t, n, "r")

\* RwLock::write returns once nobody holds the lock, RwLock::read once no
\* writer holds it.  Whether read also waits behind a queued writer is left
\* to the platform by std; the model lets the reader in, which covers every
\* policy for the states it reaches.
\* Variant of CanWrite: write() returns at once, whoever holds the lock.
CanWriteAlways(n) == TRUE

CanWrite(n) == ~WriteLocked(n) /\ ~ReadLocked(n)
CanRead(n) == ~WriteLocked(n)

Front(s) == SubSeq(s, 1, Len(s) - 1)
Last(s) == s[Len(s)]

(***************************************************************************)
(* Thread bookkeeping.                                                     *)
(***************************************************************************)
MkOp(k, nm, lv, h, m, nd) ==
    [kind |-> k, name |-> nm, level |-> lv, handler |-> h, msg |-> m, node |-> nd]

NoOp == MkOp("none", <<>>, 0, "-", "-", 0)
NoSnap == [clean |-> FALSE, sub |-> {}, pre |-> <<>>]

Idle(t) == pc[t] = "idle"
Active(t) == pc[t] \notin {"idle", "panicked"}

\* Number of guards the thread held when its running operation was called.
Base(t) == IF outer[t] = <<>> THEN 0 ELSE Last(outer[t]).base

\* Handles the program owns: the Logger values Logger::new has returned.
HandleSet == {p[2] : p \in issued}

\* A fresh snapshot record for a propagating call of kind k by t; the running
\* calls of the same kind of the other threads are no longer undisturbed.
StartSnap(t, k) ==
    [u \in Threads |->
        IF u = t
        THEN [clean |-> ~\E v \in Threads \ {t} : Active(v) /\ op[v].kind = k,
              sub |-> {}, pre |-> <<>>]
        ELSE IF op[u].kind = k THEN [snap[u] EXCEPT !.clean = FALSE]
        ELSE snap[u]]

\* The thread's locals are gone: its call returned to the program (p = "idle")
\* or the thread died of a panic (p = "panicked").
Reset(t, p) ==
    /\ pc' = [pc EXCEPT ![t] = p]
    /\ op' = [op EXCEPT ![t] = NoOp]
    /\ target' = [target EXCEPT ![t] = 0]
    /\ idx' = [idx EXCEPT ![t] = 1]
    /\ calls' = [calls EXCEPT ![t] = <<>>]
    /\ outer' = [outer EXCEPT ![t] = <<>>]
    /\ ret' = [ret EXCEPT ![t] = 0]
    /\ snap' = [snap EXCEPT ![t] = NoSnap]

\* The call a handler made returns into the handler loop of the log call.
Resume(t) ==
    /\ pc' = [pc EXCEPT ![t] = "log_loop"]
    /\ op' = [op EXCEPT ![t] = Last(outer[t]).op]
    /\ target' = [target EXCEPT ![t] = 0]
    /\ idx' = [idx EXCEPT ![t] = Last(outer[t]).idx]
    /\ calls' = [calls EXCEPT ![t] = Last(outer[t]).calls]
    /\ outer' = [outer EXCEPT ![t] = Front(@)]
    /\ ret' = [ret EXCEPT ![t] = 0]
    /\ snap' = [snap EXCEPT ![t] = NoSnap]

Finish(t) == IF outer[t] = <<>> THEN Reset(t, "idle") ELSE Resume(t)

locals == <<op, target, idx, calls, outer, ret, snap>>

\* A panic starts unwinding with the guards h held.
PanicWith(t, h) ==
    /\ held' = [held EXCEPT ![t] = h]
    /\ frames' = [frames EXCEPT ![t] = <<>>]
    /\ IF h = <<>>
       THEN Reset(t, "panicked")
       ELSE pc' = [pc EXCEPT ![t] = "panic"] /\ UNCHANGED locals

(***************************************************************************)
(* logger.rs, Logger::get_child: the pieces of its body.                   *)
(***************************************************************************)
\* let remaining = &name[self.name.len()..];
Remaining(self, name) == SliceFrom(name, Len(self.name))

\* remaining["::".len()..].split("::").next()
SubName(remaining) == SplitFirst(SliceFrom(remaining, Len(D)))

\* Variant of Lookup: the lookup that never finds the child.
LookupMisses(children, sub) == 0

\* self.children.get(sub_name): the child's address, 0 for None
Lookup(children, sub) == IF sub \in DOMAIN children THEN children[sub] ELSE 0

\* Variant of NewLogger: the child starts from the root's initial values.
NewLoggerFromDefaults(self, sub) ==
    [level |-> MAX,
     handlers |-> <<>>,
     name |-> self.name \o D \o sub,
     children |-> NoChildren]

\* Variant of NewLogger: the child takes the level but starts without handlers.
NewLoggerNoHandlers(self, sub) ==
    [level |-> self.level,
     handlers |-> <<>>,
     name |-> self.name \o D \o sub,
     children |-> NoChildren]

\* The Logger built in the None arm.
NewLogger(self, sub) ==
    [level |-> self.level,
     handlers |-> self.handlers,
     name |-> self.name \o D \o sub,
     children |-> NoChildren]

\* if sub_name.len() + "::".len() == remaining.len()
IsFinal(sub, remaining) == Len(sub) + Len(D) = Len(remaining)

\* One call of get_child on the node at address self, whose lock the caller
\* holds: the heap after it, the child it found or made, whether it panicked
\* and whether the child is the logger asked for.
GetChild(ns, self, name) ==
    LET me == ns[self]
        remaining == Remaining(me, name)
        sub == SubName(remaining)
        found == Lookup(me.children, sub)
        fresh == Len(ns) + 1
    IN  IF Len(name) < Len(me.name) \/ ~StartsWith(remaining, D)
        THEN [panic |-> TRUE, heap |-> ns, child |-> 0, final |-> FALSE]
        ELSE IF found # 0
        THEN [panic |-> FALSE, heap |-> ns, child |-> found,
              final |-> IsFinal(sub, remaining)]
        ELSE [panic |-> FALSE,
              heap |-> Append([ns EXCEPT ![self].children = Insert(@, sub, fresh)],
                              NewLogger(me, sub)),
              child |-> fresh,
              final |-> IsFinal(sub, remaining)]

(***************************************************************************)
(* lib.rs, Logger::new -> logger.rs, get_logger -> Logger::get_child.      *)
(***************************************************************************)
StartNew(t, name) ==
    /\ op' = [op EXCEPT ![t] = MkOp("new", name, 0, "-", "-", 0)]
    /\ pc' = [pc EXCEPT ![t] = "new_lock"]
    /\ target' = [target EXCEPT ![t] = Root]

CallNew(t, name) ==
    /\ Idle(t) /\ ncalls < MaxCalls
    /\ ncalls' = ncalls + 1
    /\ StartNew(t, name)
    /\ UNCHANGED <<nodes, poisoned, held, frames, idx, calls, outer, ret, issued, snap>>

\* get_root().write().expect(..) or sub_logger.write().expect(..), followed by
\* the body of get_child on the node just locked.
NewStep(t) ==
    /\ pc[t] = "new_lock"
    /\ CanWrite(target[t])
    /\ IF target[t] \in poisoned
       THEN PanicWith(t, held[t]) /\ UNCHANGED nodes
       ELSE LET r == GetChild(nodes, target[t], op[t].name)
                h == Append(held[t], Guard(target[t], "w"))
            IN  IF r.panic
                THEN PanicWith(t, h) /\ UNCHANGED nodes
                ELSE /\ nodes' = r.heap
                     /\ held' = [held EXCEPT ![t] = h]
                     /\ IF r.final
                        THEN /\ ret' = [ret EXCEPT ![t] = r.child]
                             /\ pc' = [pc EXCEPT ![t] = "return"]
                             /\ UNCHANGED target
                        ELSE /\ target' = [target EXCEPT ![t] = r.child]
                             /\ UNCHANGED <<pc, ret>>
                     /\ UNCHANGED <<frames, op, idx, calls, outer, snap>>
    /\ UNCHANGED <<poisoned, issued, ncalls>>

\* The guards of the returning call are dropped, innermost first; the call
\* has returned when the last of them is gone.
Return(t) ==
    /\ pc[t] = "return"
    /\ held' = [held EXCEPT ![t] = Front(@)]
    /\ IF Len(held[t]) - 1 > Base(t)
       THEN UNCHANGED <<pc, locals, issued>>
       ELSE /\ Finish(t)
            /\ issued' = IF op[t].kind = "new"
                         THEN issued \cup {<<op[t].name, ret[t]>>}
                         ELSE issued
    /\ UNCHANGED <<nodes, poisoned, frames, ncalls>>

\* Variant of Unwind: dropping a guard while panicking leaves the lock sound.
UnwindClean(t) ==
    /\ pc[t] = "panic"
    /\ PanicWith(t, Front(held[t]))
    /\ UNCHANGED <<nodes, poisoned, issued, ncalls>>

\* Unwinding after a panic drops every guard of the thread, innermost first;
\* dropping a write guard while panicking poisons its lock.
Unwind(t) ==
    /\ pc[t] = "panic"
    /\ poisoned' = IF Last(held[t]).mode = "w"
                   THEN poisoned \cup {Last(held[t]).node}
                   ELSE poisoned
    /\ PanicWith(t, Front(held[t]))
    /\ UNCHANGED <<nodes, issued, ncalls>>

(***************************************************************************)
(* set_level and add_handler: lib.rs wrappers and logger.rs recursion.     *)
(***************************************************************************)
\* Variant of SetLevelAt: the node's handler list is emptied as well.
SetLevelAndClear(ns, n, level) == [ns EXCEPT ![n].level = level, ![n].handlers = <<>>]

\* logger.rs Logger::set_level, line 24: self.level = level
SetLevelAt(ns, n, level) == [ns EXCEPT ![n].level = level]

\* Variant of PushHandler: the handler goes to the front of the list.
PushHandlerFront(ns, n, h) == [ns EXCEPT ![n].handlers = <<h>> \o @]

\* Variant of PushHandler: a handler the list already holds is not added again.
PushHandlerOnce(ns, n, h) ==
    IF \E i \in DOMAIN ns[n].handlers : ns[n].handlers[i] = h
    THEN ns
    ELSE [ns EXCEPT ![n].handlers = Append(@, h)]

\* logger.rs Logger::add_handler, line 31: self.handlers.push(handler.clone())
PushHandler(ns, n, h) == [ns EXCEPT ![n].handlers = Append(@, h)]

\* Variant of ChildrenToVisit: the call stops at the node itself.
ChildrenSkipped(ns, n) == {}

\* Variant of ChildrenToVisit: the loop also goes up to the node's parent.
ChildrenAndParent(ns, n) ==
    ChildIds(ns, n) \cup {p \in DOMAIN ns : n \in ChildIds(ns, p)}

\* The children the for loop of set_level / add_handler goes through.
ChildrenToVisit(ns, n) == ChildIds(ns, n)

\* The node's own mutation of a propagating call.
Mutate(ns, n, o) ==
    IF o.kind = "set_level" THEN SetLevelAt(ns, n, o.level)
    ELSE PushHandler(ns, n, o.handler)

StartPropagate(t, o) ==
    /\ op' = [op EXCEPT ![t] = o]
    /\ pc' = [pc EXCEPT ![t] = "prop_lock"]
    /\ target' = [target EXCEPT ![t] = o.node]
    /\ snap' = StartSnap(t, o.kind)

\* lib.rs Logger::set_level, before the lock is taken
CallSetLevel(t, h, l) ==
    /\ Idle(t) /\ ncalls < MaxCalls
    /\ ncalls' = ncalls + 1
    /\ StartPropagate(t, MkOp("set_level", <<>>, l, "-", "-", h))
    /\ UNCHANGED <<nodes, poisoned, held, frames, idx, calls, outer, ret, issued>>

\* lib.rs set_level
CallGlobalSetLevel(t, l) ==
    /\ Idle(t) /\ ncalls < MaxCalls
    /\ ncalls' = ncalls + 1
    /\ StartPropagate(t, MkOp("set_level", <<>>, l, "-", "-", Root))
    /\ UNCHANGED <<nodes, poisoned, held, frames, idx, calls, outer, ret, issued>>

\* lib.rs Logger::add_handler, before the lock is taken
CallAddHandler(t, h, hd) ==
    /\ Idle(t) /\ ncalls < MaxCalls
    /\ ncalls' = ncalls + 1
    /\ StartPropagate(t, MkOp("add_handler", <<>>, 0, hd, "-", h))
    /\ UNCHANGED <<nodes, poisoned, held, frames, idx, calls, outer, ret, issued>>

\* lib.rs add_handler
CallGlobalAddHandler(t, hd) ==
    /\ Idle(t) /\ ncalls < MaxCalls
    /\ ncalls' = ncalls + 1
    /\ StartPropagate(t, MkOp("add_handler", <<>>, 0, hd, "-", Root))
    /\ UNCHANGED <<nodes, poisoned, held, frames, idx, calls, outer, ret, issued>>

\* x.write().expect(..) on the handle's node, the root or a child, then the
\* body of set_level / add_handler on it up to the for loop.
PropagateEnter(t) ==
    /\ pc[t] = "prop_lock"
    /\ CanWrite(target[t])
    /\ IF target[t] \in poisoned
       THEN PanicWith(t, held[t]) /\ UNCHANGED nodes
       ELSE /\ held' = [held EXCEPT ![t] = Append(@, Guard(target[t], "w"))]
            /\ nodes' = Mutate(nodes, target[t], op[t])
            /\ \E order \in Orders(ChildrenToVisit(nodes, target[t])) :
                   frames' = [frames EXCEPT ![t] = Append(@, order)]
            /\ pc' = [pc EXCEPT ![t] = "prop_loop"]
            /\ snap' = IF frames[t] = <<>>
                       THEN [snap EXCEPT ![t].sub = Subtree(nodes, target[t]),
                                         ![t].pre = [n \in Addrs |-> nodes[n].handlers]]
                       ELSE snap
            /\ UNCHANGED <<op, target, idx, calls, outer, ret>>
    /\ UNCHANGED <<poisoned, issued, ncalls>>

\* The for loop turns to its next child.
PropagateNext(t) ==
    /\ pc[t] = "prop_loop"
    /\ Last(frames[t]) # <<>>
    /\ target' = [target EXCEPT ![t] = Head(Last(frames[t]))]
    /\ frames' = [frames EXCEPT ![t][Len(frames[t])] = Tail(@)]
    /\ pc' = [pc EXCEPT ![t] = "prop_lock"]
    /\ UNCHANGED <<nodes, poisoned, held, op, idx, calls, outer, ret, issued, snap, ncalls>>

\* The for loop is over: the call on this node returns and the guard on it
\* is dropped (the caller's loop variable `lock`, or the wrapper's `locked`).
PropagateLeave(t) ==
    /\ pc[t] = "prop_loop"
    /\ Last(frames[t]) = <<>>
    /\ frames' = [frames EXCEPT ![t] = Front(@)]
    /\ held' = [held EXCEPT ![t] = Front(@)]
    /\ IF Len(frames[t]) > 1
       THEN UNCHANGED <<pc, locals>>
       ELSE Finish(t)
    /\ UNCHANGED <<nodes, poisoned, issued, ncalls>>

(***************************************************************************)
(* lib.rs Logger::log -> logger.rs Logger::log.                            *)
(***************************************************************************)
\* Variant of Dropped: the threshold itself is dropped too.
DroppedInclusive(level, selfLevel) == level <= selfLevel

\* if level < self.level { return; }
Dropped(level, selfLevel) == level < selfLevel

\* handler.log(level, msg.clone(), self.name.to_string())
Invocation(h, level, msg, self) ==
    [handler |-> h, level |-> level, msg |-> msg, logger |-> self.name]

\* Variant of HandlerAt: the list is gone through from its end.
HandlerAtReversed(handlers, i) == handlers[Len(handlers) + 1 - i]

\* The handler the for loop of Logger::log yields in its i-th iteration.
HandlerAt(handlers, i) == handlers[i]

StartLog(t, h, m, s) ==
    /\ op' = [op EXCEPT ![t] = MkOp("log", <<>>, s, "-", m, h)]
    /\ pc' = [pc EXCEPT ![t] = "log_lock"]
    /\ target' = [target EXCEPT ![t] = h]

\* lib.rs Logger::log, before the lock is taken
CallLog(t, h, m, s) ==
    /\ Idle(t) /\ ncalls < MaxCalls
    /\ ncalls' = ncalls + 1
    /\ StartLog(t, h, m, s)
    /\ UNCHANGED <<nodes, poisoned, held, frames, idx, calls, outer, ret, issued, snap>>

\* self.inner.read().expect(..), then the level test of logger.rs Logger::log
LogEnter(t) ==
    /\ pc[t] = "log_lock"
    /\ CanRead(target[t])
    /\ IF target[t] \in poisoned
       THEN PanicWith(t, held[t])
       ELSE /\ held' = [held EXCEPT ![t] = Append(@, Guard(target[t], "r"))]
            /\ calls' = [calls EXCEPT ![t] = <<>>]
            /\ idx' = [idx EXCEPT ![t] = 1]
            /\ pc' = [pc EXCEPT ![t] =
                         IF Dropped(op[t].level, nodes[target[t]].level)
                         THEN "return" ELSE "log_loop"]
            /\ UNCHANGED <<op, target, frames, outer, ret, snap>>
    /\ UNCHANGED <<nodes, poisoned, issued, ncalls>>

\* The for loop has a handler left to call.
InLoop(t) == pc[t] = "log_loop" /\ idx[t] <= Len(nodes[op[t].node].handlers)

\* The handler about to be called calls back into the library: it is that
\* kind of handler, and the log call was not itself made by a handler.
CallsBack(t) ==
    /\ HandlerAt(nodes[op[t].node].handlers, idx[t]) = "HR"
    /\ outer[t] = <<>>

\* The handler about to be called is one whose log method panics.
Fails(t) == HandlerAt(nodes[op[t].node].handlers, idx[t]) = "HP"

\* One iteration of the for loop with a handler that only writes the record out.
InvokeHandler(t) ==
    LET self == nodes[op[t].node]
        h == HandlerAt(self.handlers, idx[t])
    IN  /\ InLoop(t) /\ ~CallsBack(t) /\ ~Fails(t)
        /\ calls' = [calls EXCEPT ![t] = Append(@, Invocation(h, op[t].level, op[t].msg, self))]
        /\ idx' = [idx EXCEPT ![t] = @ + 1]
        /\ UNCHANGED <<nodes, poisoned, held, pc, op, target, frames, outer, ret, issued,
                       snap, ncalls>>

\* The log call as it stands when its handler is entered, to resume later.
Suspended(t) ==
    LET self == nodes[op[t].node]
        h == HandlerAt(self.handlers, idx[t])
    IN  [op |-> op[t], idx |-> idx[t] + 1,
         calls |-> Append(calls[t], Invocation(h, op[t].level, op[t].msg, self)),
         base |-> Len(held[t])]

\* One iteration of the for loop with a handler whose log method logs on the
\* logger it is attached to.
HandlerLogs(t) ==
    /\ InLoop(t) /\ CallsBack(t)
    /\ outer' = [outer EXCEPT ![t] = <<Suspended(t)>>]
    /\ StartLog(t, op[t].node, op[t].msg, op[t].level)
    /\ UNCHANGED <<nodes, poisoned, held, frames, idx, calls, ret, issued, snap, ncalls>>

\* ... whose log method resolves a logger.
HandlerResolves(t, name) ==
    /\ InLoop(t) /\ CallsBack(t)
    /\ outer' = [outer EXCEPT ![t] = <<Suspended(t)>>]
    /\ StartNew(t, name)
    /\ UNCHANGED <<nodes, poisoned, held, frames, idx, calls, ret, issued, snap, ncalls>>

\* ... whose log method changes the level of the logger it is attached to.
HandlerSetsLevel(t, l) ==
    /\ InLoop(t) /\ CallsBack(t)
    /\ outer' = [outer EXCEPT ![t] = <<Suspended(t)>>]
    /\ StartPropagate(t, MkOp("set_level", <<>>, l, "-", "-", op[t].node))
    /\ UNCHANGED <<nodes, poisoned, held, frames, idx, calls, ret, issued, ncalls>>

\* One iteration of the for loop with a handler whose log method panics: the
\* panic leaves the loop and unwinds through both log functions, nothing
\* catching it, with the read guard of lib.rs Logger::log still held.
HandlerPanics(t) ==
    /\ InLoop(t) /\ Fails(t)
    /\ PanicWith(t, held[t])
    /\ UNCHANGED <<nodes, poisoned, issued, ncalls>>

\* The for loop is over.
LogLoopEnd(t) ==
    /\ pc[t] = "log_loop"
    /\ idx[t] > Len(nodes[op[t].node].handlers)
    /\ pc' = [pc EXCEPT ![t] = "return"]
    /\ UNCHANGED <<nodes, poisoned, held, op, target, frames, idx, calls, outer, ret,
                   issued, snap, ncalls>>

(***************************************************************************)
(* The program.                                                            *)
(***************************************************************************)
Init ==
    /\ nodes = <<RootLogger>>
    /\ poisoned = {}
    /\ held = [t \in Threads |-> <<>>]
    /\ pc = [t \in Threads |-> "idle"]
    /\ op = [t \in Threads |-> NoOp]
    /\ target = [t \in Threads |-> 0]
    /\ frames = [t \in Threads |-> <<>>]
    /\ idx = [t \in Threads |-> 1]
    /\ calls = [t \in Threads |-> <<>>]
    /\ outer = [t \in Threads |-> <<>>]
    /\ ret = [t \in Threads |-> 0]
    /\ issued = {}
    /\ snap = [t \in Threads |-> NoSnap]
    /\ ncalls = 0

\* The calls of a program whose handlers only write the record out.
Program(t, names, hs) ==
    \/ \E name \in names : CallNew(t, name)
    \/ NewStep(t)
    \/ Return(t)
    \/ Unwind(t)
    \/ \E h \in HandleSet, l \in LevelInputs : CallSetLevel(t, h, l)
    \/ \E l \in LevelInputs : CallGlobalSetLevel(t, l)
    \/ \E h \in HandleSet, hd \in hs : CallAddHandler(t, h, hd)
    \/ \E hd \in hs : CallGlobalAddHandler(t, hd)
    \/ PropagateEnter(t)
    \/ PropagateNext(t)
    \/ PropagateLeave(t)
    \/ \E h \in HandleSet, m \in Msgs, s \in Severities : CallLog(t, h, m, s)
    \/ LogEnter(t)
    \/ InvokeHandler(t)
    \/ LogLoopEnd(t)

Next == \E t \in Threads : Program(t, Names, Handlers)

Spec == Init /\ [][Next]_vars

\* The same program with a handler "HR" whose log method calls back into the
\* library, on the logger it is attached to or through Logger::new.
ReentrantHandlers == {"HR"}
ReentrantNames == {<<"a">>, NameA, NameAB}

NextReentrant ==
    \E t \in Threads :
        \/ Program(t, ReentrantNames, ReentrantHandlers)
        \/ HandlerLogs(t)
        \/ \E name \in ReentrantNames : HandlerResolves(t, name)
        \/ \E l \in LevelInputs : HandlerSetsLevel(t, l)

SpecReentrant == Init /\ [][NextReentrant]_vars

(***************************************************************************)
(* Path shapes of spec section 4.1, for the statements below.              *)
(***************************************************************************)
\* The segments of a path: the pieces between the delimiters.
RECURSIVE Segments(_)
Segments(s) ==
    LET first == SplitFirst(s)
    IN  IF Len(first) = Len(s) THEN <<first>>
        ELSE <<first>> \o Segments(SliceFrom(s, Len(first) + Len(D)))

\* One or more non-empty segments joined by the delimiter.
WellFormed(s) == \A i \in DOMAIN Segments(s) : Segments(s)[i] # <<>>

\* The parent of a node of the heap ns (0 for the root).
ParentOf(ns, n) ==
    IF \E p \in DOMAIN ns : n \in ChildIds(ns, p)
    THEN CHOOSE p \in DOMAIN ns : n \in ChildIds(ns, p)
    ELSE 0

\* A log call that has run its level test and its loop and still holds its guard.
LogDone(t) == pc[t] = "return" /\ op[t].kind = "log"

\* A propagating call by t whose recursion is over and whose node is still
\* locked: all that is left of the call is the drop of that guard.
PropagateDone(t, k) ==
    /\ pc[t] = "prop_loop" /\ op[t].kind = k
    /\ Len(frames[t]) = 1 /\ Last(frames[t]) = <<>>

(***************************************************************************)
(* C1 Uniqueness: no two nodes have the same fully-qualified name, and all *)
(* resolve calls for one path, concurrent or sequential, return handles to *)
(* the same node, which carries that name.                                 *)
(***************************************************************************)
Uniqueness ==
    /\ \A i, j \in Addrs : nodes[i].name = nodes[j].name => i = j
    /\ \A p, q \in issued : p[1] = q[1] => p[2] = q[2]
    /\ \A p \in issued : nodes[p[2]].name = p[1]
    /\ \A t \in Threads : pc[t] = "return" /\ op[t].kind = "new" =>
           /\ nodes[ret[t]].name = op[t].name
           /\ \A q \in issued : q[1] = op[t].name => q[2] = ret[t]

\* A second resolve of a two-segment path returns the node already handed out,
\* while the other thread is resolving the same path too.
UniquenessWitness ==
    \E t, u \in Threads :
        /\ t # u
        /\ pc[t] = "return" /\ op[t] = MkOp("new", NameAB, 0, "-", "-", 0)
        /\ <<NameAB, ret[t]>> \in issued
        /\ pc[u] = "new_lock" /\ op[u] = op[t]

(***************************************************************************)
(* C2 Inheritance snapshot: whenever a step creates a node, the new node's *)
(* level and handler list are its parent's level and handler list in the   *)
(* state the step started from.                                            *)
(***************************************************************************)
InheritanceSnapshot ==
    [][\A n \in (DOMAIN nodes') \ (DOMAIN nodes) :
          LET p == ParentOf(nodes', n)
          IN  /\ p \in DOMAIN nodes
              /\ nodes'[n].level = nodes[p].level
              /\ nodes'[n].handlers = nodes[p].handlers
              /\ nodes'[n].children = NoChildren]_vars

\* A resolve has just created a node below a non-root parent whose level had
\* been set and which had a handler: the new node has both, not the defaults.
InheritanceWitness ==
    \E t \in Threads :
        /\ pc[t] = "return" /\ op[t].kind = "new"
        /\ ret[t] = Len(nodes) /\ ret[t] \notin HandleSet
        /\ Len(held[t]) = 2
        /\ nodes[ret[t]].level = INFO
        /\ nodes[ret[t]].handlers # <<>>
        /\ nodes[Root].level # INFO

(***************************************************************************)
(* C3 Level propagation: when set_level(L) on X is through, and no other   *)
(* set_level ran since the call started, X and every node that was in X's  *)
(* subtree when the call locked X have level L.                            *)
(***************************************************************************)
LevelPropagation ==
    \A t \in Threads :
        PropagateDone(t, "set_level") /\ snap[t].clean =>
            /\ op[t].node \in snap[t].sub
            /\ \A n \in snap[t].sub : nodes[n].level = op[t].level

\* A set_level on the root is through with a grandchild in the subtree.
LevelPropagationWitness ==
    \E t \in Threads :
        /\ PropagateDone(t, "set_level") /\ snap[t].clean
        /\ op[t].node = Root
        /\ \E n \in snap[t].sub : ParentOf(nodes, n) \notin {0, Root}

(***************************************************************************)
(* C4 Handler propagation: when add_handler(H) on X is through, and no     *)
(* other add_handler ran since the call started, every node that was in    *)
(* X's subtree when the call locked X has its former list followed by one  *)
(* H, and every other node that existed then has its former list.          *)
(***************************************************************************)
HandlerPropagation ==
    \A t \in Threads :
        PropagateDone(t, "add_handler") /\ snap[t].clean =>
            \A n \in DOMAIN snap[t].pre :
                nodes[n].handlers =
                    IF n \in snap[t].sub
                    THEN snap[t].pre[n] \o <<op[t].handler>>
                    ELSE snap[t].pre[n]

\* An add_handler on a non-root node with a child is through; the node had a
\* different handler before, and the root is outside the subtree.
HandlerPropagationWitness ==
    \E t \in Threads :
        /\ PropagateDone(t, "add_handler") /\ snap[t].clean
        /\ op[t].node # Root
        /\ Cardinality(snap[t].sub) >= 2
        /\ snap[t].pre[op[t].node] # <<>>
        /\ snap[t].pre[op[t].node][1] # op[t].handler

(***************************************************************************)
(* C5 Filtering boundary: a log call with severity s on a node with level  *)
(* L invokes a handler only if s >= L, and if s >= L it invokes as many    *)
(* handlers as the node has.                                               *)
(***************************************************************************)
FilteringBoundary ==
    \A t \in Threads :
        LET self == nodes[op[t].node]
        IN  /\ pc[t] = "log_loop" => op[t].level >= self.level
            /\ LogDone(t) =>
                  IF op[t].level >= self.level
                  THEN Len(calls[t]) = Len(self.handlers)
                  ELSE calls[t] = <<>>

\* Two log calls on one node with a handler: the one with s = L has invoked
\* it, the one with s = L - 1 has invoked nothing.
FilteringWitness ==
    \E t, u \in Threads :
        /\ LogDone(t) /\ LogDone(u) /\ op[t].node = op[u].node
        /\ op[t].level = nodes[op[t].node].level /\ calls[t] # <<>>
        /\ op[u].level = nodes[op[u].node].level - 1 /\ calls[u] = <<>>

(***************************************************************************)
(* C6 Handler fan-out order: a log call that passes the filter invokes the *)
(* handlers of the node's list, one invocation per entry and in the list's *)
(* order, each with the call's severity and message and the node's name.   *)
(***************************************************************************)
ExpectedCalls(t) ==
    LET self == nodes[op[t].node]
    IN  [i \in 1..Len(self.handlers) |->
            [handler |-> self.handlers[i], level |-> op[t].level,
             msg |-> op[t].msg, logger |-> self.name]]

FanOutOrder ==
    \A t \in Threads :
        /\ pc[t] = "log_loop" =>
              calls[t] = SubSeq(ExpectedCalls(t), 1, idx[t] - 1)
        /\ LogDone(t) /\ op[t].level >= nodes[op[t].node].level =>
              calls[t] = ExpectedCalls(t)

\* A log call has invoked H1 and then H2 on a node they were added to in
\* that order.
FanOutWitness ==
    \E t \in Threads :
        /\ LogDone(t)
        /\ nodes[op[t].node].handlers = <<"H1", "H2">>
        /\ Len(calls[t]) = 2
        /\ calls[t][1].handler = "H1" /\ calls[t][2].handler = "H2"

(***************************************************************************)
(* C7 resolve never fails for a well-formed path: a Logger::new call with  *)
(* one or more non-empty segments joined by the delimiter does not panic.  *)
(***************************************************************************)
WellFormedNeverPanics ==
    \A t \in Threads :
        op[t].kind = "new" /\ WellFormed(op[t].name) => pc[t] # "panic"

(***************************************************************************)
(* C8 Resolving the empty path returns a handle to the root node: once the *)
(* call has taken the root's lock it is returning the root.                *)
(***************************************************************************)
EmptyPathIsRoot ==
    \A t \in Threads :
        op[t].kind = "new" /\ op[t].name = <<>> /\ pc[t] # "new_lock" =>
            pc[t] = "return" /\ ret[t] = Root

(***************************************************************************)
(* C9 resolve on a malformed path leaves the tree unchanged: no node is    *)
(* ever created whose segment name is the empty string.                    *)
(***************************************************************************)
NoEmptySegmentNode ==
    \A n \in Addrs : \A k \in DOMAIN nodes[n].children : k # <<>>

(***************************************************************************)
(* C10 A handler that calls into the library from inside its log method    *)
(* does not deadlock: the call it makes never waits for a lock that this   *)
(* very thread holds through the log call that invoked the handler.        *)
(***************************************************************************)
SelfBlocked(t) ==
    /\ outer[t] # <<>>
    /\ pc[t] \in {"new_lock", "prop_lock"}
    /\ \E i \in 1..Last(outer[t]).base : held[t][i].node = target[t]

HandlerCallNeverStuck == \A t \in Threads : ~SelfBlocked(t)

(***************************************************************************)
(* Scheduling: a thread that can take its next step is given the processor *)
(* in the end.  A call is started by the program, which owes nothing.      *)
(***************************************************************************)
Step(t) ==
    \/ NewStep(t)
    \/ Return(t)
    \/ Unwind(t)
    \/ PropagateEnter(t)
    \/ PropagateNext(t)
    \/ PropagateLeave(t)
    \/ LogEnter(t)
    \/ InvokeHandler(t)
    \/ LogLoopEnd(t)

FairNames == {<<"a">>, NameA, NameAB}
FairHandlers == {"H1"}

NextFair == \E t \in Threads : Program(t, FairNames, FairHandlers)

FairSpec == Init /\ [][NextFair]_vars /\ \A t \in Threads : WF_vars(Step(t))

\* The thread stands before a lock it cannot take now.
Waiting(t) ==
    \/ pc[t] \in {"new_lock", "prop_lock"} /\ ~CanWrite(target[t])
    \/ pc[t] = "log_lock" /\ ~CanRead(target[t])

(***************************************************************************)
(* C11 Deadlock freedom, with handlers that do not call back: the guards a *)
(* thread holds are a chain of parent and child, outermost first, and the  *)
(* lock it goes for next is a child of the last of them; whenever a call   *)
(* is running, some running call is not waiting for a lock; and, threads   *)
(* being scheduled fairly, every call that started comes to its end.       *)
(***************************************************************************)
TopDown ==
    \A t \in Threads :
        /\ \A i \in 1..(Len(held[t]) - 1) :
               held[t][i + 1].node \in ChildIds(nodes, held[t][i].node)
        /\ pc[t] \in {"new_lock", "prop_lock", "log_lock"} /\ held[t] # <<>> =>
               target[t] \in ChildIds(nodes, Last(held[t]).node)

NoWaitCycle ==
    (\E t \in Threads : Active(t)) => (\E t \in Threads : Active(t) /\ ~Waiting(t))

DeadlockFreedom ==
    /\ [](TopDown /\ NoWaitCycle)
    /\ \A t \in Threads : Active(t) ~> ~Active(t)

\* Both threads are inside propagating calls on overlapping nodes: one holds
\* the root and a child and waits for the grandchild the other one has locked.
DeadlockFreedomWitness ==
    \E t, u \in Threads :
        /\ t # u
        /\ Len(held[t]) = 2 /\ held[t][1].node = Root
        /\ pc[t] = "prop_lock" /\ Waiting(t)
        /\ Holds(u, target[t], "w")

(***************************************************************************)
(* A program that makes at most one set_level call (to INFO) and at most   *)
(* one add_handler call (of H1), on a handle or globally, next to any      *)
(* number of Logger::new calls.                                            *)
(***************************************************************************)
RaceNames == {<<"a">>, NameA, NameAB}

\* No set_level (k = "set_level") or add_handler call has been made yet.
NotCalledYet(k) ==
    /\ \A t \in Threads : op[t].kind # k
    /\ \A n \in Addrs :
           IF k = "set_level" THEN nodes[n].level = MAX ELSE nodes[n].handlers = <<>>

NextRace ==
    \E t \in Threads :
        \/ \E name \in RaceNames : CallNew(t, name)
        \/ NewStep(t)
        \/ Return(t)
        \/ Unwind(t)
        \/ NotCalledYet("set_level") /\ \E h \in HandleSet : CallSetLevel(t, h, INFO)
        \/ NotCalledYet("set_level") /\ CallGlobalSetLevel(t, INFO)
        \/ NotCalledYet("add_handler") /\ \E h \in HandleSet : CallAddHandler(t, h, "H1")
        \/ NotCalledYet("add_handler") /\ CallGlobalAddHandler(t, "H1")
        \/ PropagateEnter(t)
        \/ PropagateNext(t)
        \/ PropagateLeave(t)

SpecRace == Init /\ [][NextRace]_vars

(***************************************************************************)
(* C12 No lost updates between creation and propagation: with one          *)
(* set_level(L) and one add_handler(H) in the whole run, racing with       *)
(* resolves in any way, once all calls are over every node below a node    *)
(* that has level L has level L, and every node below a node that has H    *)
(* has H; and no node ever has H more than once.                           *)
(***************************************************************************)
NoLostUpdate ==
    /\ \A n \in Addrs : Len(nodes[n].handlers) <= 1
    /\ (\A t \in Threads : ~Active(t)) =>
           \A n \in Addrs : \A d \in Subtree(nodes, n) :
               /\ nodes[n].level = INFO => nodes[d].level = INFO
               /\ nodes[n].handlers = <<"H1">> => nodes[d].handlers = <<"H1">>

\* The race as it stands when creation came first: a resolve has just made a
\* node below X, with the old level and no handler, and still holds X, while a
\* set_level or add_handler on X waits for X's lock.
NoLostUpdateWitness ==
    \E t, u \in Threads :
        /\ pc[t] = "return" /\ op[t].kind = "new" /\ ret[t] = Len(nodes)
        /\ Len(held[t]) = 2
        /\ pc[u] = "prop_lock" /\ target[u] = Last(held[t]).node /\ held[u] = <<>>
        /\ nodes[ret[t]].level = MAX /\ nodes[ret[t]].handlers = <<>>

(***************************************************************************)
(* C13 Handlers are never deduplicated: add_handler appends to the list of *)
(* every node it visits, whether or not the list holds the handler already *)
(* (so a handler added to a node and to an ancestor is held twice), and a  *)
(* log call that passes the filter invokes a handler as many times as the  *)
(* node's list holds it.                                                   *)
(***************************************************************************)
Occurrences(s, h) == Cardinality({i \in DOMAIN s : s[i] = h})

\* add_handler by t reaches and mutates node n in this step.
AddsHandlerAt(t, n) ==
    /\ op[t].kind = "add_handler" /\ target[t] = n
    /\ pc[t] = "prop_lock" /\ pc'[t] = "prop_loop"

NeverDeduplicated ==
    /\ [][\A t \in Threads : \A n \in Addrs :
              AddsHandlerAt(t, n) =>
                  nodes'[n].handlers = Append(nodes[n].handlers, op[t].handler)]_vars
    /\ [](\A t \in Threads :
              LogDone(t) /\ op[t].level >= nodes[op[t].node].level =>
                  \A h \in Handlers :
                      Occurrences([i \in DOMAIN calls[t] |-> calls[t][i].handler], h)
                          = Occurrences(nodes[op[t].node].handlers, h))

\* H1 was added globally and to a node below the root (in either order): the
\* node's list holds it twice and a log call on the node has invoked it twice.
NeverDeduplicatedWitness ==
    \E t \in Threads :
        /\ LogDone(t) /\ op[t].node # Root
        /\ nodes[Root].handlers = <<"H1">>
        /\ nodes[op[t].node].handlers = <<"H1", "H1">>
        /\ Len(calls[t]) = 2
        /\ calls[t][1].handler = "H1" /\ calls[t][2].handler = "H1"

(***************************************************************************)
(* C14 NONE means log nothing: a log call on a node whose level is NONE    *)
(* invokes no handler, whatever its severity, the maximum included.        *)
(***************************************************************************)
NoneLogsNothing ==
    \A t \in Threads :
        op[t].kind = "log" /\ nodes[op[t].node].level = NONE => calls[t] = <<>>

(***************************************************************************)
(* The program with a handler "HP" whose log method panics.                *)
(***************************************************************************)
FailingHandlers == {"H1", "HP"}
FailingNames == {NameA, NameAB}

NextFailing ==
    \E t \in Threads :
        \/ Program(t, FailingNames, FailingHandlers)
        \/ HandlerPanics(t)

SpecFailing == Init /\ [][NextFailing]_vars

(***************************************************************************)
(* C15 Handler failure containment: a log call that passes the filter ends *)
(* by returning to its caller, never by a panic, and has then invoked      *)
(* every handler of the node's list, a handler that fails being skipped    *)
(* over.                                                                   *)
(***************************************************************************)
HandlerFailureContained ==
    \A t \in Threads :
        op[t].kind = "log" /\ pc[t] \in {"return", "panic"}
                           /\ op[t].level >= nodes[op[t].node].level =>
            /\ pc[t] = "return"
            /\ idx[t] = Len(nodes[op[t].node].handlers) + 1

(***************************************************************************)
(* C16 No handler runs under the node's lock: when the loop of a log call  *)
(* is about to invoke a handler the logging thread holds no guard on the   *)
(* node, and no writer on that node (set_level, add_handler, child         *)
(* creation) is kept waiting by the log call.                              *)
(***************************************************************************)
HandlersRunUnlocked ==
    \A t \in Threads :
        InLoop(t) =>
            /\ ~Holds(t, op[t].node, "r")
            /\ \A u \in Threads \ {t} :
                   pc[u] \in {"new_lock", "prop_lock"} /\ target[u] = op[t].node =>
                       CanWrite(target[u])

(***************************************************************************)
(* C17 A resolve holds at most one node's lock at any moment: at no point  *)
(* of a Logger::new call does the calling thread hold guards on two nodes. *)
(***************************************************************************)
ResolveHoldsOneLock ==
    \A t \in Threads :
        op[t].kind = "new" => Cardinality({held[t][i].node : i \in DOMAIN held[t]}) <= 1

(***************************************************************************)
(* The program with loggers in two subtrees of the root, ::a and ::b.      *)
(***************************************************************************)
NameB == D \o <<"b">>
SiblingNames == {<<"a">>, NameAB, NameB}
SiblingHandlers == {"H1"}

NextSiblings == \E t \in Threads : Program(t, SiblingNames, SiblingHandlers)

SpecSiblings == Init /\ [][NextSiblings]_vars

\* The child of the root a path lies under: its first segment after the
\* leading delimiter (<<>> for the root's own name and for a path without it).
Branch(s) ==
    IF StartsWith(s, D) /\ Len(Segments(s)) >= 2 THEN Segments(s)[2] ELSE <<>>

\* The subtree of the root the running call of t works in.
OpBranch(t) ==
    IF op[t].kind = "new" THEN Branch(op[t].name)
    ELSE IF op[t].kind \in {"set_level", "add_handler", "log"}
         THEN Branch(nodes[op[t].node].name)
         ELSE <<>>

(***************************************************************************)
(* C18 No single lock serializes unrelated subtrees: of two calls in       *)
(* progress that work in different subtrees of the root (a resolve of a    *)
(* path under ::a, a resolve or a set_level under ::b), neither waits for  *)
(* a lock the other holds.                                                 *)
(***************************************************************************)
SiblingSubtreesIndependent ==
    \A t, u \in Threads :
        /\ t # u
        /\ OpBranch(t) # <<>> /\ OpBranch(u) # <<>> /\ OpBranch(t) # OpBranch(u)
        => ~(Waiting(t) /\ \E i \in DOMAIN held[u] : held[u][i].node = target[t])

(***************************************************************************)
(* C19 Frame of set_level: a step of a set_level(L) call on X adds no node *)
(* and changes nothing of any node but the level, and that only of a node  *)
(* of X's subtree, to L; so the levels of X's ancestors and of the nodes   *)
(* outside the subtree, and every handler list, name and children map, are *)
(* as they were, and nothing of the call acts after it has returned.       *)
(***************************************************************************)
\* The step is one of thread t.
StepOf(t) == pc'[t] # pc[t] \/ held'[t] # held[t] \/ frames'[t] # frames[t]

SetLevelFrame ==
    [][\A t \in Threads :
           op[t].kind = "set_level" /\ StepOf(t) =>
               /\ Len(nodes') = Len(nodes)
               /\ \A n \in Addrs :
                      /\ nodes'[n].handlers = nodes[n].handlers
                      /\ nodes'[n].name = nodes[n].name
                      /\ nodes'[n].children = nodes[n].children
                      /\ nodes'[n].level # nodes[n].level =>
                             /\ n \in Subtree(nodes, op[t].node)
                             /\ nodes'[n].level = op[t].level]_vars

\* set_level(L) on a node below the root that has a handler and a child has
\* finished its recursion: the subtree is at L, the root at another level.
SetLevelFrameWitness ==
    \E t \in Threads :
        /\ PropagateDone(t, "set_level") /\ op[t].node # Root
        /\ ChildIds(nodes, op[t].node) # {}
        /\ nodes[op[t].node].handlers # <<>>
        /\ \A n \in Subtree(nodes, op[t].node) : nodes[n].level = op[t].level
        /\ nodes[Root].level # op[t].level

(***************************************************************************)
(* C20 A resolve whose name does not begin with "::" fails in get_child on *)
(* the root, before any node is made and with the root's write guard held, *)
(* so that the root's lock is poisoned for good: every resolve, global     *)
(* set_level and global add_handler that comes to the root's lock after    *)
(* that fails, changing nothing.  The assertion fails nowhere but on the   *)
(* root: a panicking resolve holds the root's guard and no other, and no   *)
(* lock but the root's is ever poisoned.                                   *)
(***************************************************************************)
BadPrefix(t) == op[t].kind = "new" /\ ~StartsWith(op[t].name, D)

AtRootLock(t) == pc[t] \in {"new_lock", "prop_lock"} /\ target[t] = Root

SerialNames == {<<"a">>, NameA, NameAB, NameB}

NextSerial ==
    \E t \in Threads :
        \/ \E name \in SerialNames : CallNew(t, name)
        \/ NewStep(t)
        \/ Return(t)
        \/ Unwind(t)
        \/ \E h \in HandleSet, l \in LevelInputs :
               nodes[h].name = NameA /\ CallSetLevel(t, h, l)
        \/ \E l \in LevelInputs : CallGlobalSetLevel(t, l)
        \/ PropagateEnter(t)
        \/ PropagateNext(t)
        \/ PropagateLeave(t)

SpecSerial == Init /\ [][NextSerial]_vars

\* The nodes of the subtree of ::a (none while ::a does not exist).
UnderA == UNION {Subtree(nodes, n) : n \in {m \in Addrs : nodes[m].name = NameA}}

\* All nodes of S have one level.
Uniform(S) == \A n, m \in S : nodes[n].level = nodes[m].level

\* What runs of such a program leave behind when its calls are made one at a
\* time, in any order and with the resolves anywhere between them: every call
\* sets the whole of ::a's subtree, the calls on the root the rest as well,
\* and a node made later copies its parent.
SerialOutcome ==
    /\ Uniform(UnderA)
    /\ Uniform(Addrs \ UnderA)
    /\ nodes[Root].level # MAX => \A n \in Addrs : nodes[n].level # MAX

====
